---- MODULE Spec2Model ----
(***************************************************************************)
(* A model of yroots/IntervalChecks.py: the elimination checks             *)
(* (constant_term_check, quadratic_check and its 2-D, 3-D and n-D          *)
(* routines) and the IntervalData tracker that runs them.                  *)
(*                                                                         *)
(* Numbers.  Python floats are modelled as exact rationals [n, d] with     *)
(* d > 0; coefficients and tolerances are integers.  Rounding is not       *)
(* modelled.                                                               *)
(*                                                                         *)
(* Indexing.  Python indices are 0-based, TLA+ sequences 1-based: axis i   *)
(* of the code is axis i+1 here, interval[0] is interval[1] (the lower     *)
(* bounds) and interval[1] is interval[2] (the upper bounds).  The indices *)
(* of a coefficient tensor keep the code's 0-based values: the constant    *)
(* term of a 2-D tensor is test_coeff[<<0, 0>>].                           *)
(***************************************************************************)
EXTENDS Integers, Sequences, FiniteSets, TLC

VARIABLES
    \* IntervalData attributes
    interval_results, total_area, current_area, polishing, polish_intervals,
    polish_num, polish_interval_num, polish_a, polish_b, tick,
    \* the attribute print_results adds: <<>> while the object has no such
    \* attribute, <<n>> once it holds n
    total_intervals,
    \* the cells of the active box tracked since current_area was last 0
    covered,
    \* the last operation called, with its arguments, and what it returned
    call, ret,
    \* the arguments of the check functions
    test_coeff, intervals, tol,
    \* the cache of the memoized get_fixed_vars: at dim, <<>> before the first
    \* call with dim and <<val>> once val has been computed for it
    fixed_vars_cache

trackerVars == <<interval_results, total_area, current_area, polishing,
                 polish_intervals, polish_num, polish_interval_num,
                 polish_a, polish_b, tick, total_intervals, covered>>
inputVars == <<test_coeff, intervals, tol>>
vars == <<trackerVars, call, ret, inputVars, fixed_vars_cache>>

----------------------------------------------------------------------------
(* Exact rational arithmetic standing for the code's float arithmetic.     *)

Abs(x) == IF x < 0 THEN -x ELSE x

RECURSIVE GCD(_, _)
GCD(x, y) == IF y = 0 THEN x ELSE GCD(y, x % y)

\* the rational p/q, q # 0, in lowest terms with a positive denominator
Rat(p, q) ==
    LET g == GCD(Abs(p), Abs(q))
        s == IF q < 0 THEN -1 ELSE 1
    IN  [n |-> s * (p \div g), d |-> s * (q \div g)]

\* p/q, q # 0, with a positive denominator, not reduced: the values computed
\* on the way are only compared, never stored
Frac(p, q) == IF q < 0 THEN [n |-> -p, d |-> -q] ELSE [n |-> p, d |-> q]

FromInt(k) == [n |-> k, d |-> 1]
RAdd(x, y) == [n |-> x.n * y.d + y.n * x.d, d |-> x.d * y.d]
RSub(x, y) == [n |-> x.n * y.d - y.n * x.d, d |-> x.d * y.d]
RMul(x, y) == [n |-> x.n * y.n, d |-> x.d * y.d]
RNeg(x) == [n |-> -x.n, d |-> x.d]
RLt(x, y) == x.n * y.d < y.n * x.d
RLe(x, y) == x.n * y.d <= y.n * x.d
\* k * x for an integer k
RScale(k, x) == [n |-> k * x.n, d |-> x.d]
\* k + x for an integer k
RShift(k, x) == [n |-> k * x.d + x.n, d |-> x.d]
\* x / k for an integer k # 0
RDivInt(x, k) == Frac(x.n, x.d * k)
\* x / y for y # 0
RDiv(x, y) == Frac(x.n * y.d, x.d * y.n)

RECURSIVE SumOver(_, _)
\* the sum of f[i] over the finite set S of arguments
SumOver(S, f) ==
    IF S = {} THEN 0
    ELSE LET i == CHOOSE j \in S : TRUE IN f[i] + SumOver(S \ {i}, f)

----------------------------------------------------------------------------
(* Coefficient tensors: functions from index tuples to coefficients.       *)

\* test_coeff.ndim
ndim(coeff) == Len(CHOOSE idx \in DOMAIN coeff : TRUE)

\* test_coeff.shape
shape(coeff) ==
    [ax \in 1..ndim(coeff) |->
        1 + (CHOOSE m \in 0..Cardinality(DOMAIN coeff) :
                /\ \E idx \in DOMAIN coeff : idx[ax] = m
                /\ \A idx \in DOMAIN coeff : idx[ax] <= m)]

\* np.sum(np.abs(test_coeff))
SumAbs(coeff) == SumOver(DOMAIN coeff, [idx \in DOMAIN coeff |-> Abs(coeff[idx])])

\* the index [0]*ndim
ZeroIndex(dim) == [ax \in 1..dim |-> 0]

\* constant_term_check without fabs: the constant term counts with its sign
constant_term_check_signed(coeff, tolerance) ==
    LET test_sum == SumAbs(coeff)
    IN  IF coeff[ZeroIndex(ndim(coeff))] * 2 > test_sum + tolerance
        THEN FALSE
        ELSE TRUE

\* constant_term_check with >= for >: a tie eliminates
constant_term_check_tie_eliminates(coeff, tolerance) ==
    LET test_sum == SumAbs(coeff)
    IN  IF Abs(coeff[ZeroIndex(ndim(coeff))]) * 2 >= test_sum + tolerance
        THEN FALSE
        ELSE TRUE

constant_term_check(coeff, tolerance) ==
    LET test_sum == SumAbs(coeff)
    IN  IF Abs(coeff[ZeroIndex(ndim(coeff))]) * 2 > test_sum + tolerance
        THEN FALSE
        ELSE TRUE

----------------------------------------------------------------------------
(* The two flags of the quadratic checks.  Each routine evaluates the      *)
(* quadratic part at its candidate points in a fixed order, updates        *)
(* min_satisfied and max_satisfied after each value and stops as soon as   *)
(* both are set.  cands[i] is the i-th candidate of that order: <<v>> with *)
(* the value v of eval_func there, or <<>> when the code's guards skip it. *)

RECURSIVE ScanEvals(_, _, _, _, _, _)
\* TRUE iff both flags get set from candidate i on: the interval is kept
ScanEvals(cands, n, i, min_satisfied, max_satisfied, other_sum) ==
    IF i > n THEN FALSE
    ELSE LET e == cands[i]
         IN  IF e = <<>>
             THEN ScanEvals(cands, n, i + 1, min_satisfied, max_satisfied, other_sum)
             ELSE LET mn == min_satisfied \/ RLt(e[1], FromInt(other_sum))
                      mx == max_satisfied \/ RLt(FromInt(-other_sum), e[1])
                  IN  IF mn /\ mx THEN TRUE
                      ELSE ScanEvals(cands, n, i + 1, mn, mx, other_sum)

\* n candidates
BothSatisfied(cands, n, other_sum) == ScanEvals(cands, n, 1, FALSE, FALSE, other_sum)

\* lo < v < hi
InOpen(lo, v, hi) == RLt(lo, v) /\ RLt(v, hi)
\* lo <= v <= hi
InClosed(lo, v, hi) == RLe(lo, v) /\ RLe(v, hi)

\* a candidate evaluated whatever its guard says
Cand_guard_ignored(cond, v) == <<v>>

\* a candidate evaluated only when its guard holds
Cand(cond, v) == IF cond THEN <<v>> ELSE <<>>

----------------------------------------------------------------------------
(* quadratic_check_2D                                                      *)

\* c[0..5]: the coefficients of the quadratic part, 0 where the shape is short
QuadCoeffs2D(coeff) ==
    LET sh == shape(coeff)
    IN  (0 :> coeff[<<0, 0>>])
        @@ (1 :> IF sh[1] > 1 THEN coeff[<<1, 0>>] ELSE 0)
        @@ (2 :> IF sh[2] > 1 THEN coeff[<<0, 1>>] ELSE 0)
        @@ (3 :> IF sh[1] > 2 THEN coeff[<<2, 0>>] ELSE 0)
        @@ (4 :> IF sh[1] > 1 /\ sh[2] > 1 THEN coeff[<<1, 1>>] ELSE 0)
        @@ (5 :> IF sh[2] > 2 THEN coeff[<<0, 2>>] ELSE 0)

\* other_sum with tol subtracted from the margin instead of added
OtherSum_tol_subtracted(coeff, c, tolerance) ==
    SumAbs(coeff) - SumOver(DOMAIN c, [k \in DOMAIN c |-> Abs(c[k])]) - tolerance

\* other_sum with the constant term left in the sum
OtherSum_constant_counted(coeff, c, tolerance) ==
    SumAbs(coeff) - SumOver(DOMAIN c \ {0}, [k \in DOMAIN c \ {0} |-> Abs(c[k])])
        + tolerance

\* other_sum of the 2-D and 3-D routines: c is the extracted quadratic part
OtherSum(coeff, c, tolerance) ==
    SumAbs(coeff) - SumOver(DOMAIN c, [k \in DOMAIN c |-> Abs(c[k])]) + tolerance

\* eval_func(x, y) = k0 + (c1 + k3 x + c4 y) x + (c2 + k5 y) y
EvalFunc2D(c, x, y) ==
    LET k0 == c[0] - c[3] - c[5]
        k3 == 2 * c[3]
        k5 == 2 * c[5]
    IN  RShift(k0,
            RAdd(RMul(RShift(c[1], RAdd(RScale(k3, x), RScale(c[4], y))), x),
                 RMul(RShift(c[2], RScale(k5, y)), y)))

\* the candidates of quadratic_check_2D cut down to the four corners
Cands2D_corners_only(c, interval) ==
    [k \in 1..9 |->
        CASE k = 1 -> <<EvalFunc2D(c, interval[1][1], interval[1][2])>>
          [] k = 2 -> <<EvalFunc2D(c, interval[2][1], interval[1][2])>>
          [] k = 3 -> <<EvalFunc2D(c, interval[1][1], interval[2][2])>>
          [] k = 4 -> <<EvalFunc2D(c, interval[2][1], interval[2][2])>>
          [] OTHER -> <<>>]

\* the candidates of one interval, in the code's order: four corners, two on
\* the x constant boundaries, two on the y constant boundaries, the interior
Cands2D(c, interval) ==
    LET x0 == interval[1][1]
        x1 == interval[2][1]
        y0 == interval[1][2]
        y1 == interval[2][2]
        det == 16 * c[3] * c[5] - c[4] * c[4]
        \* x constant: y = -(c2 + c4 x) / (4 c5)
        XConst(x) ==
            IF c[5] # 0
            THEN LET y == RDivInt(RNeg(RShift(c[2], RScale(c[4], x))), 4 * c[5])
                 IN  IF InOpen(y0, y, y1) THEN <<EvalFunc2D(c, x, y)>> ELSE <<>>
            ELSE <<>>
        \* y constant: x = -(c1 + c4 y) / (4 c3)
        YConst(y) ==
            IF c[3] # 0
            THEN LET x == RDivInt(RNeg(RShift(c[1], RScale(c[4], y))), 4 * c[3])
                 IN  IF InOpen(x0, x, x1) THEN <<EvalFunc2D(c, x, y)>> ELSE <<>>
            ELSE <<>>
        \* the interior critical point; absent (np.inf) when det = 0
        Interior ==
            IF det # 0
            THEN LET int_x == Frac(c[2] * c[4] - 4 * c[1] * c[5], det)
                     int_y == Frac(c[1] * c[4] - 4 * c[2] * c[3], det)
                 IN  IF InOpen(x0, int_x, x1) /\ InOpen(y0, int_y, y1)
                     THEN <<EvalFunc2D(c, int_x, int_y)>> ELSE <<>>
            ELSE <<>>
    IN  [k \in 1..9 |->
            CASE k = 1 -> <<EvalFunc2D(c, x0, y0)>>
              [] k = 2 -> <<EvalFunc2D(c, x1, y0)>>
              [] k = 3 -> <<EvalFunc2D(c, x0, y1)>>
              [] k = 4 -> <<EvalFunc2D(c, x1, y1)>>
              [] k = 5 -> XConst(x0)
              [] k = 6 -> XConst(x1)
              [] k = 7 -> YConst(y0)
              [] k = 8 -> YConst(y1)
              [] k = 9 -> Interior]

RECURSIVE ScanFlags(_, _, _, _, _, _)
\* the two flags after the candidates from i on, or when both are set
ScanFlags(cands, n, i, min_satisfied, max_satisfied, other_sum) ==
    IF i > n \/ (min_satisfied /\ max_satisfied)
    THEN [min_satisfied |-> min_satisfied, max_satisfied |-> max_satisfied]
    ELSE LET e == cands[i]
         IN  IF e = <<>>
             THEN ScanFlags(cands, n, i + 1, min_satisfied, max_satisfied, other_sum)
             ELSE ScanFlags(cands, n, i + 1,
                            min_satisfied \/ RLt(e[1], FromInt(other_sum)),
                            max_satisfied \/ RLt(FromInt(-other_sum), e[1]),
                            other_sum)

\* quadratic_check_2D with the two flags set to False once, before the loop
\* over the intervals, instead of once per interval
quadratic_check_2D_flags_carried(coeff, ivs, tolerance) ==
    IF ndim(coeff) # 2 THEN [i \in 1..Len(ivs) |-> TRUE]
    ELSE LET c == QuadCoeffs2D(coeff)
             other_sum == OtherSum(coeff, c, tolerance)
             RECURSIVE FlagsAfter(_)
             FlagsAfter(i) ==
                 IF i = 0 THEN [min_satisfied |-> FALSE, max_satisfied |-> FALSE]
                 ELSE LET before == FlagsAfter(i - 1)
                      IN  ScanFlags(Cands2D(c, ivs[i]), 9, 1, before.min_satisfied,
                                    before.max_satisfied, other_sum)
         IN  [i \in 1..Len(ivs) |->
                FlagsAfter(i).min_satisfied /\ FlagsAfter(i).max_satisfied]

quadratic_check_2D(coeff, ivs, tolerance) ==
    IF ndim(coeff) # 2 THEN [i \in 1..Len(ivs) |-> TRUE]
    ELSE LET c == QuadCoeffs2D(coeff)
             other_sum == OtherSum(coeff, c, tolerance)
         IN  [i \in 1..Len(ivs) |->
                BothSatisfied(Cands2D(c, ivs[i]), 9, other_sum)]

----------------
(* Small linear algebra over the rationals, for quadratic_check_nd.        *)
(* A matrix is a sequence of rows.                                         *)

RECURSIVE RSum(_, _)
\* v[1] + ... + v[k]
RSum(v, k) == IF k = 0 THEN FromInt(0) ELSE RAdd(RSum(v, k - 1), v[k])

\* M without its first row and its column j
Minor(M, j) ==
    [r \in 1..(Len(M) - 1) |->
        [cl \in 1..(Len(M) - 1) |-> M[r + 1][IF cl < j THEN cl ELSE cl + 1]]]

RECURSIVE Det(_)
Det(M) ==
    IF Len(M) = 1 THEN M[1][1]
    ELSE RSum([j \in 1..Len(M) |->
                  RMul(IF j % 2 = 1 THEN M[1][j] ELSE RNeg(M[1][j]),
                       Det(Minor(M, j)))],
              Len(M))

\* np.linalg.matrix_rank(M) == M.shape[0], in exact arithmetic
FullRank(M) == Det(M).n # 0

\* la.solve(M, rhs) for a matrix of full rank (Cramer's rule)
Solve(M, rhs) ==
    LET d == Det(M)
    IN  [i \in 1..Len(M) |->
            RDiv(Det([r \in 1..Len(M) |->
                        [cl \in 1..Len(M) |-> IF cl = i THEN rhs[r] ELSE M[r][cl]]]),
                 d)]

----------------------------------------------------------------------------
(* get_fixed_vars: the tuples of (0-based) axes to fix, itertools order.   *)

RECURSIVE FlatMap(_, _, _)
\* F[lo] \o F[lo+1] \o ... \o F[hi]
FlatMap(F, lo, hi) == IF lo > hi THEN <<>> ELSE F[lo] \o FlatMap(F, lo + 1, hi)

RECURSIVE combinations(_, _, _)
\* itertools.combinations(range(lo, hi), r): ascending tuples, lexicographic
combinations(lo, hi, r) ==
    IF r = 0 THEN << <<>> >>
    ELSE FlatMap([f \in lo..(hi - r) |->
                    LET rest == combinations(f + 1, hi, r - 1)
                    IN  [k \in 1..Len(rest) |-> <<f>> \o rest[k]]],
                 lo, hi - r)

\* get_fixed_vars with range(dim, 0, -1): the corners' subset comes first
get_fixed_vars_from_full_subset(dim) ==
    FlatMap([k \in 0..(dim - 1) |-> combinations(0, dim, dim - k)], 0, dim - 1)

\* the sizes dim-1, dim-2, ..., 1 are range(dim-1, 0, -1)
get_fixed_vars(dim) ==
    FlatMap([k \in 1..(dim - 1) |-> combinations(0, dim, dim - k)], 1, dim - 1)

\* get_fixed_vars is called with dimensions 1..MaxDim
MaxDim == 5

\* the cache of a memoized function before its first call
EmptyCache == [dim \in 1..MaxDim |-> <<>>]

\* @memoize: the value stored for dim if there is one; otherwise the value
\* is computed and stored
memoized_get_fixed_vars(cache, dim) ==
    IF cache[dim] # <<>>
    THEN [cache |-> cache, val |-> cache[dim][1], hit |-> TRUE]
    ELSE LET val == get_fixed_vars(dim)
         IN  [cache |-> [cache EXCEPT ![dim] = <<val>>], val |-> val, hit |-> FALSE]

RECURSIVE Pow2(_)
Pow2(k) == IF k = 0 THEN 1 ELSE 2 * Pow2(k - 1)

\* itertools.product([0,1], repeat=k): the last position varies fastest
product01(k) ==
    [m \in 1..Pow2(k) |-> [p \in 1..k |-> ((m - 1) \div Pow2(k - p)) % 2]]

----------------------------------------------------------------------------
(* quadratic_check_nd                                                      *)

\* the padded tensor's entry: 0 outside the shape
Coef(coeff, spot) == IF spot \in DOMAIN coeff THEN coeff[spot] ELSE 0

\* the index with v at the (1-based) axes in S and 0 elsewhere
Spot(dim, S, v) == [ax \in 1..dim |-> IF ax \in S THEN v ELSE 0]

\* the spots of itertools.product(range(3), repeat=dim) of degree < 3
QuadSpots(dim) ==
    {spot \in [1..dim -> 0..2] : SumOver(1..dim, spot) < 3}

\* const, B, pure_quad_coeff, A and k0 as the extraction loop leaves them
QuadPart(coeff) ==
    LET dim == ndim(coeff)
        pure_quad_coeff == [i \in 1..dim |-> Coef(coeff, Spot(dim, {i}, 2))]
    IN  [dim |-> dim,
         B |-> [i \in 1..dim |-> Coef(coeff, Spot(dim, {i}, 1))],
         pure_quad_coeff |-> pure_quad_coeff,
         pure_quad_coeff_doubled |-> [i \in 1..dim |-> 2 * pure_quad_coeff[i]],
         A |-> [i \in 1..dim |-> [j \in 1..dim |->
                   IF i = j THEN 2 * (2 * pure_quad_coeff[i])
                   ELSE Coef(coeff, Spot(dim, {i, j}, 1))]],
         k0 |-> Coef(coeff, ZeroIndex(dim)) - SumOver(1..dim, pure_quad_coeff)]

\* np.sum(np.abs(test_coeff)) + tol once the quadratic spots are zeroed
OtherSumND(coeff, tolerance) ==
    LET rest == DOMAIN coeff \ QuadSpots(ndim(coeff))
    IN  SumOver(rest, [idx \in rest |-> Abs(coeff[idx])]) + tolerance

\* np.pad(test_coeff.copy(), padding, mode='constant') with the padding
\* (0, max(0, 3 - i)) of every axis: a new array, 0 outside the old shape
np_pad(coeff) ==
    LET dim == ndim(coeff)
        sh == shape(coeff)
        padded_shape == [ax \in 1..dim |-> IF sh[ax] < 3 THEN 3 ELSE sh[ax]]
        top == CHOOSE m \in {padded_shape[ax] : ax \in 1..dim} :
                  \A ax \in 1..dim : padded_shape[ax] <= m
    IN  [idx \in {i \in [1..dim -> 0..(top - 1)] :
                     \A ax \in 1..dim : i[ax] < padded_shape[ax]}
            |-> Coef(coeff, idx)]

\* the array after test_coeff[spot] = 0 for the spots of degree < 3 it has
ZeroQuadSpots(array) ==
    [idx \in DOMAIN array |->
        IF idx \in QuadSpots(ndim(array)) THEN 0 ELSE array[idx]]

\* the arrays with the writes done on the array that was passed in
quadratic_check_nd_arrays_in_place(coeff) ==
    [caller |-> ZeroQuadSpots(coeff), work |-> ZeroQuadSpots(coeff)]

\* the arrays when quadratic_check_nd returns.  objects[1] is the array the
\* caller passed, .copy() and np.pad each make a new object, the local name
\* test_coeff is rebound to the last one and the loop writes through it.
\* caller: the caller's array; work: the array the local name refers to
quadratic_check_nd_arrays(coeff) ==
    LET passed == <<coeff>>
        copied == Append(passed, passed[1])
        padded == Append(copied, np_pad(copied[2]))
        test_coeff_local == 3
        objects == [padded EXCEPT ![test_coeff_local] = ZeroQuadSpots(@)]
    IN  [caller |-> objects[1], work |-> objects[test_coeff_local]]

\* eval_func(point) of quadratic_check_nd
EvalFuncND(q, point) ==
    RShift(q.k0,
        RSum([i \in 1..q.dim |->
                RMul(RShift(q.B[i],
                        RAdd(RScale(q.pure_quad_coeff_doubled[i], point[i]),
                             RSum([j \in 1..q.dim |->
                                      IF j > i THEN RScale(q.A[i][j], point[j])
                                      ELSE FromInt(0)], q.dim))),
                     point[i])],
             q.dim))

\* the corner picked by corner (0: lower bound, 1: upper bound, per axis)
CornerPoint(interval, corner) ==
    [i \in 1..Len(corner) |-> interval[corner[i] + 1][i]]

\* np.delete(np.arange(dim), fixed), as 1-based axes in ascending order
Unfixed(dim, fixed) ==
    LET F == {fixed[p] + 1 : p \in 1..Len(fixed)}
        RECURSIVE Up(_)
        Up(ax) == IF ax > dim THEN <<>>
                  ELSE (IF ax \in F THEN <<>> ELSE <<ax>>) \o Up(ax + 1)
    IN  Up(1)

\* "if diagonal entries change sign": some diag[i] * diag[i+1] < 0
SignChange(diag) == \E i \in 1..(Len(diag) - 1) : diag[i] * diag[i + 1] < 0

\* X0 = np.array([interval[j][i] for i,j in enumerate(side)]): position i of
\* side indexes the axis of the bound, whatever variable fixed[i] is
FixedValues(interval, fixed, side) ==
    [p \in 1..Len(side) |-> interval[side[p] + 1][p]]

\* the candidate of one set of fixed variables and one choice of boundaries
SideCandND(q, interval, fixed, side) ==
    LET unfixed == Unfixed(q.dim, fixed)
        nu == Len(unfixed)
        nf == Len(fixed)
        A_ == [r \in 1..nu |-> [cl \in 1..nu |-> FromInt(q.A[unfixed[r]][unfixed[cl]])]]
        diag == [r \in 1..nu |-> q.A[unfixed[r]][unfixed[r]]]
        X0 == FixedValues(interval, fixed, side)
        \* -B_ - fixed_A @ X0
        rhs == [r \in 1..nu |->
                  RNeg(RShift(q.B[unfixed[r]],
                         RSum([p \in 1..nf |->
                                  RScale(q.A[unfixed[r]][fixed[p] + 1], X0[p])],
                              nf)))]
        X_ == Solve(A_, rhs)
        X == [ax \in 1..q.dim |->
                IF \E p \in 1..nf : fixed[p] + 1 = ax
                THEN X0[CHOOSE p \in 1..nf : fixed[p] + 1 = ax]
                ELSE X_[CHOOSE r \in 1..nu : unfixed[r] = ax]]
    IN  IF ~SignChange(diag) /\ FullRank(A_)
        THEN Cand(\A r \in 1..nu :
                     InClosed(interval[1][unfixed[r]], X_[r], interval[2][unfixed[r]]),
                  EvalFuncND(q, X))
        ELSE <<>>

\* X as it is when eval_func(X) is called for one set of fixed variables and
\* one choice of boundaries: X[fixed] = X0, X[unfixed] = X_
SidePointND(q, interval, fixed, side) ==
    LET unfixed == Unfixed(q.dim, fixed)
        nu == Len(unfixed)
        nf == Len(fixed)
        A_ == [r \in 1..nu |-> [cl \in 1..nu |-> FromInt(q.A[unfixed[r]][unfixed[cl]])]]
        X0 == FixedValues(interval, fixed, side)
        rhs == [r \in 1..nu |->
                  RNeg(RShift(q.B[unfixed[r]],
                         RSum([p \in 1..nf |->
                                  RScale(q.A[unfixed[r]][fixed[p] + 1], X0[p])],
                              nf)))]
        X_ == Solve(A_, rhs)
    IN  [ax \in 1..q.dim |->
            IF \E p \in 1..nf : fixed[p] + 1 = ax
            THEN X0[CHOOSE p \in 1..nf : fixed[p] + 1 = ax]
            ELSE X_[CHOOSE r \in 1..nu : unfixed[r] = ax]]

\* the candidate at the unconstrained critical point A X = -B
InteriorCandND(q, interval) ==
    LET A_ == [r \in 1..q.dim |-> [cl \in 1..q.dim |-> FromInt(q.A[r][cl])]]
    IN  IF ~SignChange(q.pure_quad_coeff) /\ FullRank(A_)
        THEN LET X == Solve(A_, [r \in 1..q.dim |-> FromInt(-q.B[r])])
             IN  Cand(\A i \in 1..q.dim : InClosed(interval[1][i], X[i], interval[2][i]),
                      EvalFuncND(q, X))
        ELSE <<>>

\* <<fixed, side>> for every fixed of fixed_vars and every side, in loop order
SidesND(dim) ==
    LET fixed_vars == get_fixed_vars(dim)
    IN  FlatMap([f \in 1..Len(fixed_vars) |->
                    LET sides == product01(Len(fixed_vars[f]))
                    IN  [m \in 1..Len(sides) |-> <<fixed_vars[f], sides[m]>>]],
                1, Len(fixed_vars))

\* the candidates of one interval, in the code's order: the corners, the
\* sides, the interior
CandsND(q, corners, sides, interval) ==
    LET nc == Len(corners)
        ns == Len(sides)
    IN  [k \in 1..(nc + ns + 1) |->
            IF k <= nc THEN <<EvalFuncND(q, CornerPoint(interval, corners[k]))>>
            ELSE IF k <= nc + ns
                 THEN SideCandND(q, interval, sides[k - nc][1], sides[k - nc][2])
                 ELSE InteriorCandND(q, interval)]

quadratic_check_nd(coeff, ivs, tolerance) ==
    LET q == QuadPart(coeff)
        other_sum == OtherSumND(coeff, tolerance)
        corners == product01(q.dim) \o <<>>
        sides == SidesND(q.dim)
    IN  [k \in 1..Len(ivs) |->
            BothSatisfied(CandsND(q, corners, sides, ivs[k]),
                          Len(corners) + Len(sides) + 1, other_sum)]

----------------------------------------------------------------------------
(* quadratic_check_3D                                                      *)

\* c[0..9]: the coefficients of the quadratic part, 0 where the shape is short
QuadCoeffs3D(coeff) ==
    LET sh == shape(coeff)
    IN  (0 :> coeff[<<0, 0, 0>>])
        @@ (1 :> IF sh[1] > 1 THEN coeff[<<1, 0, 0>>] ELSE 0)
        @@ (2 :> IF sh[2] > 1 THEN coeff[<<0, 1, 0>>] ELSE 0)
        @@ (3 :> IF sh[3] > 1 THEN coeff[<<0, 0, 1>>] ELSE 0)
        @@ (4 :> IF sh[1] > 1 /\ sh[2] > 1 THEN coeff[<<1, 1, 0>>] ELSE 0)
        @@ (5 :> IF sh[1] > 1 /\ sh[3] > 1 THEN coeff[<<1, 0, 1>>] ELSE 0)
        @@ (6 :> IF sh[2] > 1 /\ sh[3] > 1 THEN coeff[<<0, 1, 1>>] ELSE 0)
        @@ (7 :> IF sh[1] > 2 THEN coeff[<<2, 0, 0>>] ELSE 0)
        @@ (8 :> IF sh[2] > 2 THEN coeff[<<0, 2, 0>>] ELSE 0)
        @@ (9 :> IF sh[3] > 2 THEN coeff[<<0, 0, 2>>] ELSE 0)

\* eval_func(x,y,z) = k0 + (c1 + k7 x + c4 y + c5 z) x + (c2 + k8 y + c6 z) y
\*                       + (c3 + k9 z) z
EvalFunc3D(c, x, y, z) ==
    LET k0 == c[0] - c[7] - c[8] - c[9]
        k7 == 2 * c[7]
        k8 == 2 * c[8]
        k9 == 2 * c[9]
    IN  RShift(k0,
          RAdd(RMul(RShift(c[1], RAdd(RScale(k7, x),
                                   RAdd(RScale(c[4], y), RScale(c[5], z)))), x),
          RAdd(RMul(RShift(c[2], RAdd(RScale(k8, y), RScale(c[6], z))), y),
               RMul(RShift(c[3], RScale(k9, z)), z))))

\* the candidates of one interval, in the code's order: 8 corners, 12 with one
\* variable free, 6 with one variable fixed, the interior
Cands3D(c, interval) ==
    LET x0 == interval[1][1]
        x1 == interval[2][1]
        y0 == interval[1][2]
        y1 == interval[2][2]
        z0 == interval[1][3]
        z1 == interval[2][3]
        kk7 == 4 * c[7]
        kk8 == 4 * c[8]
        kk9 == 4 * c[9]
        fix_x_det == kk8 * kk9 - c[6] * c[6]
        fix_y_det == kk7 * kk9 - c[5] * c[5]
        fix_z_det == kk7 * kk8 - c[4] * c[4]
        minor_1_2 == kk9 * c[4] - c[5] * c[6]
        minor_1_3 == c[4] * c[6] - kk8 * c[5]
        minor_2_3 == kk7 * c[6] - c[4] * c[5]
        det == 4 * c[7] * fix_x_det - c[4] * minor_1_2 + c[5] * minor_1_3
        E(x, y, z) == EvalFunc3D(c, x, y, z)
        \* one unfixed variable: z, then y, then x
        ZOf(x, y) == RDivInt(RNeg(RAdd(RShift(c[3], RScale(c[5], x)), RScale(c[6], y))), kk9)
        ZC(x, y) == Cand(c[9] # 0 /\ InOpen(z0, ZOf(x, y), z1), E(x, y, ZOf(x, y)))
        YOf(x, z) == RDivInt(RNeg(RAdd(RShift(c[2], RScale(c[4], x)), RScale(c[6], z))), kk8)
        YC(x, z) == Cand(c[8] # 0 /\ InOpen(y0, YOf(x, z), y1), E(x, YOf(x, z), z))
        XOf(y, z) == RDivInt(RNeg(RAdd(RShift(c[1], RScale(c[4], y)), RScale(c[5], z))), kk7)
        XC(y, z) == Cand(c[7] # 0 /\ InOpen(x0, XOf(y, z), x1), E(XOf(y, z), y, z))
        \* x constant: y and z solve the 2x2 system
        FixX(x) ==
            LET c2_c4x == RShift(c[2], RScale(c[4], x))
                c3_c5x == RShift(c[3], RScale(c[5], x))
                y == RDivInt(RAdd(RScale(-kk9, c2_c4x), RScale(c[6], c3_c5x)), fix_x_det)
                z == RDivInt(RSub(RScale(c[6], c2_c4x), RScale(kk8, c3_c5x)), fix_x_det)
            IN  Cand(fix_x_det # 0 /\ InOpen(y0, y, y1) /\ InOpen(z0, z, z1), E(x, y, z))
        FixY(y) ==
            LET c1_c4y == RShift(c[1], RScale(c[4], y))
                c3_c6y == RShift(c[3], RScale(c[6], y))
                x == RDivInt(RAdd(RScale(-kk9, c1_c4y), RScale(c[5], c3_c6y)), fix_y_det)
                z == RDivInt(RSub(RScale(c[5], c1_c4y), RScale(kk7, c3_c6y)), fix_y_det)
            IN  Cand(fix_y_det # 0 /\ InOpen(x0, x, x1) /\ InOpen(z0, z, z1), E(x, y, z))
        FixZ(z) ==
            LET c1_c5z == RShift(c[1], RScale(c[5], z))
                c2_c6z == RShift(c[2], RScale(c[6], z))
                x == RDivInt(RAdd(RScale(-kk8, c1_c5z), RScale(c[4], c2_c6z)), fix_z_det)
                y == RDivInt(RSub(RScale(c[4], c1_c5z), RScale(kk7, c2_c6z)), fix_z_det)
            IN  Cand(fix_z_det # 0 /\ InOpen(x0, x, x1) /\ InOpen(y0, y, y1), E(x, y, z))
        \* the interior critical point; absent (np.inf) when det = 0
        interior ==
            IF det # 0
            THEN LET int_x == Frac(c[1] * (-fix_x_det) + c[2] * minor_1_2
                                    + c[3] * (-minor_1_3), det)
                     int_y == Frac(c[1] * minor_1_2 + c[2] * (-fix_y_det)
                                    + c[3] * minor_2_3, det)
                     int_z == Frac(c[1] * (-minor_1_3) + c[2] * minor_2_3
                                    + c[3] * (-fix_z_det), det)
                 IN  Cand(InOpen(x0, int_x, x1) /\ InOpen(y0, int_y, y1)
                             /\ InOpen(z0, int_z, z1),
                          E(int_x, int_y, int_z))
            ELSE <<>>
    IN  [k \in 1..27 |->
            CASE k = 1 -> <<E(x0, y0, z0)>>
              [] k = 2 -> <<E(x1, y0, z0)>>
              [] k = 3 -> <<E(x0, y1, z0)>>
              [] k = 4 -> <<E(x0, y0, z1)>>
              [] k = 5 -> <<E(x1, y1, z0)>>
              [] k = 6 -> <<E(x1, y0, z1)>>
              [] k = 7 -> <<E(x0, y1, z1)>>
              [] k = 8 -> <<E(x1, y1, z1)>>
              [] k = 9 -> ZC(x0, y0)
              [] k = 10 -> ZC(x0, y1)
              [] k = 11 -> ZC(x1, y0)
              [] k = 12 -> ZC(x1, y1)
              [] k = 13 -> YC(x0, z0)
              [] k = 14 -> YC(x0, z1)
              [] k = 15 -> YC(x1, z0)
              [] k = 16 -> YC(x1, z1)
              [] k = 17 -> XC(y0, z0)
              [] k = 18 -> XC(y0, z1)
              [] k = 19 -> XC(y1, z0)
              [] k = 20 -> XC(y1, z1)
              [] k = 21 -> FixX(x0)
              [] k = 22 -> FixX(x1)
              [] k = 23 -> FixY(y0)
              [] k = 24 -> FixY(y1)
              [] k = 25 -> FixZ(z0)
              [] k = 26 -> FixZ(z1)
              [] k = 27 -> interior]

quadratic_check_3D(coeff, ivs, tolerance) ==
    IF ndim(coeff) # 3 THEN [i \in 1..Len(ivs) |-> TRUE]
    ELSE LET c == QuadCoeffs3D(coeff)
             other_sum == OtherSum(coeff, c, tolerance)
         IN  [i \in 1..Len(ivs) |->
                BothSatisfied(Cands3D(c, ivs[i]), 27, other_sum)]

quadratic_check(coeff, ivs, tolerance) ==
    IF ndim(coeff) = 2 THEN quadratic_check_2D(coeff, ivs, tolerance)
    ELSE IF ndim(coeff) = 3 THEN quadratic_check_3D(coeff, ivs, tolerance)
    ELSE quadratic_check_nd(coeff, ivs, tolerance)

----------------------------------------------------------------------------
(* The bounded inputs of the check functions.                              *)

\* coefficients are integers of magnitude at most MaxCoef
MaxCoef == 1
\* a tensor has at most MaxNonzero nonzero entries
MaxNonzero == 3
\* tolerances are 0..MaxTol
MaxTol == 1
\* a 3-D tensor has at most MaxNonzero3D nonzero entries
MaxNonzero3D == 2
\* the bounds of a sub-box are multiples of 1/GridN in [-1, 1]
GridN == 1

GridPoints == {Rat(k, GridN) : k \in (-GridN)..GridN}

\* the sub-boxes of [-1,1]^dim on the grid, lower < upper on every axis
ScaledBoxes(dim) ==
    {iv \in [1..2 -> [1..dim -> GridPoints]] :
        \A ax \in 1..dim : RLt(iv[1][ax], iv[2][ax])}

\* the tensors of shape sh with at most MaxNonzero nonzero entries
TensorsOfShape(sh) ==
    LET idxs == {idx \in [1..Len(sh) -> 0..2] : \A ax \in 1..Len(sh) : idx[ax] < sh[ax]}
    IN  {t \in [idxs -> (-MaxCoef)..MaxCoef] :
            Cardinality({idx \in idxs : t[idx] # 0}) <= MaxNonzero}

\* the spots of a 3-D tensor that may be nonzero: the quadratic part and one
\* term of the remainder
Support3D ==
    {idx \in [1..3 -> 0..2] : idx[1] + idx[2] + idx[3] <= 2} \cup {<<1, 1, 1>>}

\* the 3-D tensors of shape (3,3,3) with at most MaxNonzero3D nonzero entries,
\* all of them in Support3D
Tensors3D ==
    {[idx \in [1..3 -> 0..2] |-> IF idx \in Support3D THEN t[idx] ELSE 0] :
        t \in {u \in [Support3D -> (-MaxCoef)..MaxCoef] :
                  Cardinality({idx \in Support3D : u[idx] # 0}) <= MaxNonzero3D}}

\* 1-D and 2-D tensors of every shape up to 3 per axis, and the 3-D ones
Tensors ==
    UNION {TensorsOfShape(sh) : sh \in [1..1 -> 1..3] \cup [1..2 -> 1..3]}
    \cup Tensors3D

----------------------------------------------------------------------------
(* IntervalData.  A box in absolute coordinates is <<lower, upper>> with   *)
(* integer bounds; the methods are operators from the object (the record   *)
(* self of its attributes) and the arguments to the object afterwards and  *)
(* the value returned.                                                     *)

\* the solve box is [-AbsN, AbsN]^2
AbsN == 1
\* add_polish_intervals is given at most MaxQueue boxes
MaxQueue == 1
\* add_polish_intervals is called at most MaxPolishNum times
MaxPolishNum == 1
\* check_subintervals is given at most MaxBatch sub-boxes
MaxBatch == 2

\* self.a, self.b
a == <<-AbsN, -AbsN>>
b == <<AbsN, AbsN>>

\* self.interval_checks and self.subinterval_checks: the checks' __name__
interval_checks == <<"constant_term_check">>
subinterval_checks == <<"quadratic_check">>

\* the keys of interval_results, as __init__ creates them
ResultNames ==
    {interval_checks[k] : k \in 1..Len(interval_checks)}
    \cup {subinterval_checks[k] : k \in 1..Len(subinterval_checks)}
    \cup {"Base Case", "Macaulay", "Too Deep"}

RECURSIVE Prod(_, _)
\* v[1] * ... * v[k]
Prod(v, k) == IF k = 0 THEN 1 ELSE Prod(v, k - 1) * v[k]

\* np.prod(upper - lower)
Volume(lower, upper) == Prod([i \in 1..Len(lower) |-> upper[i] - lower[i]], Len(lower))

\* the object __init__ leaves
NewIntervalData ==
    [interval_results |-> [name \in ResultNames |-> <<>>],
     total_area |-> Volume(a, b),
     current_area |-> 0,
     polishing |-> FALSE,
     polish_intervals |-> <<>>,
     polish_num |-> 0,
     polish_interval_num |-> -1,
     polish_a |-> <<>>,
     polish_b |-> <<>>,
     tick |-> 0,
     total_intervals |-> <<>>]

\* the object in the current state
Self ==
    [interval_results |-> interval_results,
     total_area |-> total_area,
     current_area |-> current_area,
     polishing |-> polishing,
     polish_intervals |-> polish_intervals,
     polish_num |-> polish_num,
     polish_interval_num |-> polish_interval_num,
     polish_a |-> polish_a,
     polish_b |-> polish_b,
     tick |-> tick,
     total_intervals |-> total_intervals]

\* add_polish_intervals that starts the polishing run with empty lists
add_polish_intervals_clears_results(self, new_polish_intervals) ==
    [self EXCEPT !.polishing = TRUE,
                 !.polish_intervals = new_polish_intervals,
                 !.polish_num = @ + 1,
                 !.polish_interval_num = -1,
                 !.interval_results = [name \in ResultNames |-> <<>>]]

add_polish_intervals(self, new_polish_intervals) ==
    [self EXCEPT !.polishing = TRUE,
                 !.polish_intervals = new_polish_intervals,
                 !.polish_num = @ + 1,
                 !.polish_interval_num = -1]

\* start_polish_interval that ends the polishing mode
start_polish_interval_ends_polishing(self) ==
    LET num == self.polish_interval_num + 1
    IN  IF num + 1 \in 1..Len(self.polish_intervals)
        THEN [self |-> [self EXCEPT !.polishing = FALSE,
                                    !.polish_interval_num = num,
                                    !.polish_a = self.polish_intervals[num + 1][1],
                                    !.polish_b = self.polish_intervals[num + 1][2],
                                    !.total_area = Volume(self.polish_intervals[num + 1][1],
                                                          self.polish_intervals[num + 1][2]),
                                    !.current_area = 0],
              ret |-> "None"]
        ELSE [self |-> [self EXCEPT !.polish_interval_num = num],
              ret |-> "IndexError"]

\* start_polish_interval that leaves total_area as it was
start_polish_interval_keeps_total(self) ==
    LET num == self.polish_interval_num + 1
    IN  IF num + 1 \in 1..Len(self.polish_intervals)
        THEN [self |-> [self EXCEPT !.polish_interval_num = num,
                                    !.polish_a = self.polish_intervals[num + 1][1],
                                    !.polish_b = self.polish_intervals[num + 1][2],
                                    !.current_area = 0],
              ret |-> "None"]
        ELSE [self |-> [self EXCEPT !.polish_interval_num = num],
              ret |-> "IndexError"]

\* start_polish_interval that leaves current_area as it was
start_polish_interval_keeps_area(self) ==
    LET num == self.polish_interval_num + 1
    IN  IF num + 1 \in 1..Len(self.polish_intervals)
        THEN [self |-> [self EXCEPT !.polish_interval_num = num,
                                    !.polish_a = self.polish_intervals[num + 1][1],
                                    !.polish_b = self.polish_intervals[num + 1][2],
                                    !.total_area = Volume(self.polish_intervals[num + 1][1],
                                                          self.polish_intervals[num + 1][2])],
              ret |-> "None"]
        ELSE [self |-> [self EXCEPT !.polish_interval_num = num],
              ret |-> "IndexError"]

\* the cursor moves first; the subscript then raises IndexError past the end
\* and the rest of the method is not run
start_polish_interval(self) ==
    LET num == self.polish_interval_num + 1
    IN  IF num + 1 \in 1..Len(self.polish_intervals)
        THEN [self |-> [self EXCEPT !.polish_interval_num = num,
                                    !.polish_a = self.polish_intervals[num + 1][1],
                                    !.polish_b = self.polish_intervals[num + 1][2],
                                    !.total_area = Volume(self.polish_intervals[num + 1][1],
                                                          self.polish_intervals[num + 1][2]),
                                    !.current_area = 0],
              ret |-> "None"]
        ELSE [self |-> [self EXCEPT !.polish_interval_num = num],
              ret |-> "IndexError"]

\* track_interval that accrues the volume only when it records the interval
track_interval_counts_when_recording(self, name, interval) ==
    IF ~self.polishing
    THEN [self EXCEPT !.interval_results = [@ EXCEPT ![name] = Append(@, interval)],
                      !.current_area = @ + Volume(interval[1], interval[2])]
    ELSE self

\* track_interval that records the interval in polishing mode too
track_interval_always_records(self, name, interval) ==
    [self EXCEPT !.interval_results = [@ EXCEPT ![name] = Append(@, interval)],
                 !.current_area = @ + Volume(interval[1], interval[2])]

track_interval(self, name, interval) ==
    [self EXCEPT !.interval_results =
                     IF ~self.polishing
                     THEN [@ EXCEPT ![name] = Append(@, interval)]
                     ELSE @,
                 !.current_area = @ + Volume(interval[1], interval[2])]

\* check(coeff, error) for the check of interval_checks called name
IntervalCheck(name, coeff, error) ==
    CASE name = "constant_term_check" -> constant_term_check(coeff, error)

\* check(poly, scaled_subintervals, error) for a check of subinterval_checks
SubintervalCheck(name, poly, scaled_subintervals, error) ==
    CASE name = "quadratic_check" -> quadratic_check(poly, scaled_subintervals, error)

RECURSIVE CheckIntervalFrom(_, _, _, _, _)
\* the loop of check_interval from the k-th check on
CheckIntervalFrom(self, k, coeff, error, box) ==
    IF k > Len(interval_checks) THEN [self |-> self, ret |-> FALSE]
    ELSE IF ~IntervalCheck(interval_checks[k], coeff, error)
         THEN [self |-> IF ~self.polishing
                        THEN track_interval(self, interval_checks[k], box)
                        ELSE self,
               ret |-> TRUE]
         ELSE CheckIntervalFrom(self, k + 1, coeff, error, box)

\* check_interval that also records the boxes it keeps, under "Base Case"
check_interval_records_kept(self, coeff, error, box) ==
    LET r == CheckIntervalFrom(self, 1, coeff, error, box)
    IN  IF r.ret THEN r
        ELSE [self |-> track_interval(self, "Base Case", box), ret |-> FALSE]

\* check_interval that reports a discard only where it records one
check_interval_silent_when_polishing(self, coeff, error, box) ==
    IF self.polishing THEN [self |-> self, ret |-> FALSE]
    ELSE CheckIntervalFrom(self, 1, coeff, error, box)

\* box is [a, b] of the code
check_interval(self, coeff, error, box) == CheckIntervalFrom(self, 1, coeff, error, box)

RECURSIVE FilterByMask(_, _, _, _, _)
\* the loop over enumerate(mask) from position i on: st holds the object and
\* the two new lists
FilterByMask(st, name, subintervals, scaled_subintervals, mask) ==
    IF mask = <<>> THEN st
    ELSE FilterByMask(
            IF Head(mask)
            THEN [st EXCEPT !.new_scaled_subintervals = Append(@, Head(scaled_subintervals)),
                            !.new_subintervals = Append(@, Head(subintervals))]
            ELSE [st EXCEPT !.self = IF ~st.self.polishing
                                     THEN track_interval(st.self, name, Head(subintervals))
                                     ELSE st.self],
            name, Tail(subintervals), Tail(scaled_subintervals), Tail(mask))

RECURSIVE CheckSubintervalsFrom(_, _, _, _, _, _, _)
\* the two nested loops of check_subintervals, from check k and pair p of
\* zip(polys, errors) on
CheckSubintervalsFrom(self, k, p, subintervals, scaled_subintervals, polys, errors) ==
    IF k > Len(subinterval_checks) THEN [self |-> self, ret |-> subintervals]
    ELSE IF p > Len(polys) \/ p > Len(errors)
    THEN CheckSubintervalsFrom(self, k + 1, 1, subintervals, scaled_subintervals,
                               polys, errors)
    ELSE LET mask == SubintervalCheck(subinterval_checks[k], polys[p],
                                      scaled_subintervals, errors[p])
             st == FilterByMask([self |-> self, new_scaled_subintervals |-> <<>>,
                                 new_subintervals |-> <<>>],
                                subinterval_checks[k], subintervals,
                                scaled_subintervals, mask)
         IN  CheckSubintervalsFrom(st.self, k, p + 1, st.new_subintervals,
                                   st.new_scaled_subintervals, polys, errors)

RECURSIVE CheckAllFrom(_, _, _, _, _, _, _, _)
\* the loops of check_subintervals with every polynomial run on the whole
\* list: kept[i] tells whether sub-box i has survived so far
CheckAllFrom(self, k, p, kept, subintervals, scaled_subintervals, polys, errors) ==
    IF k > Len(subinterval_checks)
    THEN [self |-> self,
          ret |-> FlatMap([i \in 1..Len(subintervals) |->
                              IF kept[i] THEN <<subintervals[i]>> ELSE <<>>],
                          1, Len(subintervals))]
    ELSE IF p > Len(polys) \/ p > Len(errors)
    THEN CheckAllFrom(self, k + 1, 1, kept, subintervals, scaled_subintervals,
                      polys, errors)
    ELSE LET mask == SubintervalCheck(subinterval_checks[k], polys[p],
                                      scaled_subintervals, errors[p])
             st == FilterByMask([self |-> self, new_scaled_subintervals |-> <<>>,
                                 new_subintervals |-> <<>>],
                                subinterval_checks[k], subintervals,
                                scaled_subintervals,
                                [i \in 1..Len(subintervals) |-> mask[i]] \o <<>>)
         IN  CheckAllFrom(st.self, k, p + 1,
                          [i \in 1..Len(subintervals) |-> kept[i] /\ mask[i]],
                          subintervals, scaled_subintervals, polys, errors)

\* check_subintervals that runs the checks on the first polynomial only
check_subintervals_first_poly_only(self, subintervals, scaled_subintervals, polys, errors) ==
    CheckSubintervalsFrom(self, 1, 1, subintervals, scaled_subintervals,
                          SubSeq(polys, 1, 1), SubSeq(errors, 1, 1))

\* check_subintervals that does not narrow the lists between polynomials
check_subintervals_without_narrowing(self, subintervals, scaled_subintervals, polys, errors) ==
    CheckAllFrom(self, 1, 1, [i \in 1..Len(subintervals) |-> TRUE],
                 subintervals, scaled_subintervals, polys, errors)

check_subintervals(self, subintervals, scaled_subintervals, polys, errors) ==
    CheckSubintervalsFrom(self, 1, 1, subintervals, scaled_subintervals, polys, errors)

\* print_progress prints on every TickPeriod-th call
TickPeriod == 100

\* the counter moves on every call and goes back to 0 when a line is printed;
\* the text written to the terminal is not part of the object
print_progress(self) ==
    LET ticked == [self EXCEPT !.tick = @ + 1]
    IN  IF ticked.tick >= TickPeriod THEN [ticked EXCEPT !.tick = 0] ELSE ticked

\* sum(results_numbers), the lengths of the lists of interval_results
TotalIntervals(self) ==
    SumOver(DOMAIN self.interval_results,
            [name \in DOMAIN self.interval_results |->
                Len(self.interval_results[name])])

\* the total is stored on the object before the three lines are printed
print_results(self) ==
    [self EXCEPT !.total_intervals = <<TotalIntervals(self)>>]

----------------------------------------------------------------------------
(* The caller of IntervalData: the subdivision driver.  It hands over      *)
(* boxes inside the box being processed, never a region it has already     *)
(* tracked, and with each sub-box its image in the [-1,1]^2 frame of the   *)
(* box the polynomials approximate on.                                     *)

\* the boxes the driver works with: cuts along x on the integer grid
AbsBoxes ==
    {box \in {<< <<x0, -AbsN>>, <<x1, AbsN>> >> :
                 x0 \in (-AbsN)..AbsN, x1 \in (-AbsN)..AbsN} :
        box[1][1] < box[2][1]}

\* box1 lies in box2
Inside(box1, box2) ==
    \A i \in 1..Len(box1[1]) : box2[1][i] <= box1[1][i] /\ box1[2][i] <= box2[2][i]

\* the interiors of the boxes meet
Overlap(box1, box2) ==
    \A i \in 1..Len(box1[1]) :
        /\ box1[1][i] < box2[2][i]
        /\ box2[1][i] < box1[2][i]

\* the box being processed: the solve box, or the polish box once one started
ActiveBox == IF polish_a = <<>> THEN <<a, b>> ELSE <<polish_a, polish_b>>

\* a box the driver may still hand over
Fresh(box) ==
    /\ Inside(box, ActiveBox)
    /\ \A done \in covered : ~Overlap(box, done)

\* box in the [-1,1]^n frame of parent
Rescale(box, parent) ==
    [e \in 1..2 |->
        [i \in 1..Len(box[e]) |->
            Rat(2 * box[e][i] - (parent[1][i] + parent[2][i]),
                parent[2][i] - parent[1][i])]]

\* f(x,y) = x, g(x,y) = y and the constant 1, each represented exactly
PolyX == [idx \in {<<0, 0>>, <<1, 0>>} |-> IF idx = <<1, 0>> THEN 1 ELSE 0]
PolyY == [idx \in {<<0, 0>>, <<0, 1>>} |-> IF idx = <<0, 1>> THEN 1 ELSE 0]
PolyOne == [idx \in {<<0, 0>>} |-> 1]
TrackerPolys == {PolyX, PolyY, PolyOne}
\* h(x,y) = 2x + 1, zero on x = -1/2 only
PolyShift == [idx \in {<<0, 0>>, <<1, 0>>} |-> IF idx = <<1, 0>> THEN 2 ELSE 1]

\* the systems the driver solves: x = y = 0, with its root at the origin,
\* two systems without a root, and 2x + 1 = y = 0 with its root in the left
\* half of the box
Systems ==
    {<<PolyX, PolyY>>, <<PolyX, PolyOne>>, <<PolyOne, PolyY>>, <<PolyShift, PolyY>>}

\* the sequences over S of lengths lo..hi
SeqsOf(S, lo, hi) == UNION {[1..k -> S] : k \in lo..hi}

\* lists of pairwise non-overlapping fresh boxes
FreshLists ==
    {l \in SeqsOf({box \in AbsBoxes : Fresh(box)}, 1, MaxBatch) :
        \A i, j \in 1..Len(l) : i # j => ~Overlap(l[i], l[j])}

\* work: the array the local name test_coeff of quadratic_check_nd refers to
\* when it returns, <<>> for the operations that have no such array
NoCall == [op |-> "none", polys |-> <<>>, errors |-> <<>>, boxes |-> <<>>,
           name |-> "", dim |-> 0, work |-> <<>>]

SetSelf(self) ==
    /\ interval_results' = self.interval_results
    /\ total_area' = self.total_area
    /\ current_area' = self.current_area
    /\ polishing' = self.polishing
    /\ polish_intervals' = self.polish_intervals
    /\ polish_num' = self.polish_num
    /\ polish_interval_num' = self.polish_interval_num
    /\ polish_a' = self.polish_a
    /\ polish_b' = self.polish_b
    /\ tick' = self.tick
    /\ total_intervals' = self.total_intervals

\* IntervalData(a, b)
InitTracker ==
    /\ interval_results = NewIntervalData.interval_results
    /\ total_area = NewIntervalData.total_area
    /\ current_area = NewIntervalData.current_area
    /\ polishing = NewIntervalData.polishing
    /\ polish_intervals = NewIntervalData.polish_intervals
    /\ polish_num = NewIntervalData.polish_num
    /\ polish_interval_num = NewIntervalData.polish_interval_num
    /\ polish_a = NewIntervalData.polish_a
    /\ polish_b = NewIntervalData.polish_b
    /\ tick = NewIntervalData.tick
    /\ total_intervals = NewIntervalData.total_intervals
    /\ covered = {}

Init ==
    /\ InitTracker
    /\ call = NoCall
    /\ ret = "None"
    /\ test_coeff = PolyOne
    /\ intervals = <<>>
    /\ tol = 0
    /\ fixed_vars_cache = EmptyCache

AddPolishIntervals(queue) ==
    /\ polish_num < MaxPolishNum
    /\ SetSelf(add_polish_intervals(Self, queue))
    /\ call' = [NoCall EXCEPT !.op = "add_polish_intervals", !.boxes = queue]
    /\ ret' = "None"
    /\ UNCHANGED <<covered, inputVars, fixed_vars_cache>>

StartPolishInterval ==
    /\ polish_interval_num < MaxQueue
    /\ \E r \in {start_polish_interval(Self)} :
          /\ SetSelf(r.self)
          /\ ret' = r.ret
          /\ covered' = IF r.ret = "None" THEN {} ELSE covered
    /\ call' = [NoCall EXCEPT !.op = "start_polish_interval"]
    /\ UNCHANGED <<inputVars, fixed_vars_cache>>

CheckInterval(coeff, error, box) ==
    /\ Fresh(box)
    /\ \E r \in {check_interval(Self, coeff, error, box)} :
          /\ SetSelf(r.self)
          /\ ret' = r.ret
          /\ covered' = IF r.self.current_area # current_area
                        THEN covered \cup {box} ELSE covered
    /\ call' = [NoCall EXCEPT !.op = "check_interval", !.polys = <<coeff>>,
                              !.errors = <<error>>, !.boxes = <<box>>]
    /\ UNCHANGED <<inputVars, fixed_vars_cache>>

CheckSubintervals(subintervals, parent, polys, errors) ==
    /\ \E scaled_subintervals \in
              {[i \in 1..Len(subintervals) |-> Rescale(subintervals[i], parent)]} :
          /\ \E r \in {check_subintervals(Self, subintervals, scaled_subintervals,
                                          polys, errors)} :
                /\ SetSelf(r.self)
                /\ ret' = r.ret
                /\ covered' = IF r.self.current_area # current_area
                              THEN covered \cup {subintervals[i] : i \in
                                      {j \in 1..Len(subintervals) :
                                         \A m \in 1..Len(r.ret) : r.ret[m] # subintervals[j]}}
                              ELSE covered
          /\ call' = [NoCall EXCEPT !.op = "check_subintervals", !.polys = polys,
                                    !.errors = errors, !.boxes = subintervals]
    /\ UNCHANGED <<inputVars, fixed_vars_cache>>

TrackInterval(name, box) ==
    /\ Fresh(box)
    /\ SetSelf(track_interval(Self, name, box))
    /\ covered' = covered \cup {box}
    /\ call' = [NoCall EXCEPT !.op = "track_interval", !.name = name, !.boxes = <<box>>]
    /\ ret' = "None"
    /\ UNCHANGED <<inputVars, fixed_vars_cache>>

PrintProgress ==
    /\ SetSelf(print_progress(Self))
    /\ call' = [NoCall EXCEPT !.op = "print_progress"]
    /\ ret' = "None"
    /\ UNCHANGED <<covered, inputVars, fixed_vars_cache>>

PrintResults ==
    /\ SetSelf(print_results(Self))
    /\ call' = [NoCall EXCEPT !.op = "print_results"]
    /\ ret' = "None"
    /\ UNCHANGED <<covered, inputVars, fixed_vars_cache>>

Next ==
    \/ \E queue \in SeqsOf(AbsBoxes, 0, MaxQueue) : AddPolishIntervals(queue)
    \/ StartPolishInterval
    \/ \E coeff \in TrackerPolys, error \in 0..MaxTol, box \in AbsBoxes :
          CheckInterval(coeff, error, box)
    \/ \E subintervals \in FreshLists, polys \in Systems, error \in 0..MaxTol :
          CheckSubintervals(subintervals, ActiveBox, polys, <<error, error>>)
    \/ \E name \in {"Base Case", "Macaulay", "Too Deep"}, box \in AbsBoxes :
          TrackInterval(name, box)

Spec == Init /\ [][Next]_vars

\* the tracker with its reporting operations, driven by direct track_interval
\* calls
NextReport ==
    \/ \E queue \in SeqsOf(AbsBoxes, 0, MaxQueue) : AddPolishIntervals(queue)
    \/ StartPolishInterval
    \/ \E name \in {"Base Case", "Macaulay", "Too Deep"}, box \in AbsBoxes :
          TrackInterval(name, box)
    \/ PrintProgress
    \/ PrintResults

SpecReport == Init /\ [][NextReport]_vars

----------------------------------------------------------------------------
(* The check functions called on their own.                                *)

\* the arguments of a call of a check function
InitChecks ==
    /\ InitTracker
    /\ test_coeff \in Tensors
    /\ intervals \in {<<iv>> : iv \in ScaledBoxes(ndim(test_coeff))}
    /\ tol \in 0..MaxTol
    /\ call = NoCall
    /\ ret = "None"
    /\ fixed_vars_cache = EmptyCache

Call_constant_term_check ==
    /\ call.op = "none"
    /\ call' = [NoCall EXCEPT !.op = "constant_term_check"]
    /\ ret' = constant_term_check(test_coeff, tol)
    /\ UNCHANGED <<trackerVars, inputVars, fixed_vars_cache>>

Call_quadratic_check ==
    /\ call.op = "none"
    /\ call' = [NoCall EXCEPT !.op = "quadratic_check",
                              !.work = IF ndim(test_coeff) \in {2, 3} THEN <<>>
                                       ELSE quadratic_check_nd_arrays(test_coeff).work]
    /\ ret' = quadratic_check(test_coeff, intervals, tol)
    \* the 2-D and 3-D routines only read test_coeff
    /\ test_coeff' = IF ndim(test_coeff) \in {2, 3} THEN test_coeff
                     ELSE quadratic_check_nd_arrays(test_coeff).caller
    \* the n-D routine, reached for other than 2-D and 3-D input, calls
    \* get_fixed_vars
    /\ fixed_vars_cache' =
          IF ndim(test_coeff) \in {2, 3} THEN fixed_vars_cache
          ELSE memoized_get_fixed_vars(fixed_vars_cache, ndim(test_coeff)).cache
    /\ UNCHANGED <<trackerVars, intervals, tol>>

Call_quadratic_check_nd ==
    /\ call.op = "none"
    /\ call' = [NoCall EXCEPT !.op = "quadratic_check_nd",
                              !.work = quadratic_check_nd_arrays(test_coeff).work]
    /\ ret' = quadratic_check_nd(test_coeff, intervals, tol)
    /\ test_coeff' = quadratic_check_nd_arrays(test_coeff).caller
    /\ fixed_vars_cache' =
          memoized_get_fixed_vars(fixed_vars_cache, ndim(test_coeff)).cache
    /\ UNCHANGED <<trackerVars, intervals, tol>>

NextChecks ==
    \/ Call_constant_term_check
    \/ Call_quadratic_check
    \/ Call_quadratic_check_nd

SpecChecks == InitChecks /\ [][NextChecks]_vars

----------------------------------------------------------------------------
(* quadratic_check called on lists of several sub-boxes.                   *)

\* a list has MaxIntervals sub-boxes
MaxIntervals == 2
\* a tensor has at most MaxNonzeroBatch nonzero entries, a 3-D one at most
\* MaxNonzeroBatch3D
MaxNonzeroBatch == 2
MaxNonzeroBatch3D == 1

\* the number of nonzero entries of a tensor
Nonzero(coeff) == Cardinality({idx \in DOMAIN coeff : coeff[idx] # 0})

\* the tensors of 3 entries per axis
BatchTensors ==
    {t \in Tensors :
        /\ DOMAIN t = [1..ndim(t) -> 0..2]
        /\ Nonzero(t) <= IF ndim(t) = 3 THEN MaxNonzeroBatch3D ELSE MaxNonzeroBatch}

\* the sub-boxes of a list; in 3-D they span [-1,1] on the last axis
BatchBoxes(dim) ==
    {iv \in ScaledBoxes(dim) :
        dim = 3 => iv[1][3] = FromInt(-1) /\ iv[2][3] = FromInt(1)}

InitBatch ==
    /\ InitTracker
    /\ test_coeff \in BatchTensors
    /\ intervals \in [1..MaxIntervals -> BatchBoxes(ndim(test_coeff))]
    /\ tol \in 0..MaxTol
    /\ call = NoCall
    /\ ret = "None"
    /\ fixed_vars_cache = EmptyCache

NextBatch ==
    \/ Call_quadratic_check
    \/ Call_quadratic_check_nd

SpecBatch == InitBatch /\ [][NextBatch]_vars

----------------------------------------------------------------------------
(* get_fixed_vars called on its own, any number of times.                  *)

\* call.name tells whether the value came from the cache
Call_get_fixed_vars(dim) ==
    /\ \E r \in {memoized_get_fixed_vars(fixed_vars_cache, dim)} :
          /\ fixed_vars_cache' = r.cache
          /\ ret' = r.val
          /\ call' = [NoCall EXCEPT !.op = "get_fixed_vars", !.dim = dim,
                                    !.name = IF r.hit THEN "cached" ELSE "computed"]
    /\ UNCHANGED <<trackerVars, inputVars>>

NextFixedVars == \E dim \in 1..MaxDim : Call_get_fixed_vars(dim)

SpecFixedVars == Init /\ [][NextFixedVars]_vars

----------------------------------------------------------------------------
(* Properties of the check functions, under SpecChecks.                    *)

\* the sum of the entries of an index: the degree of its term
Degree(idx) == SumOver(1..Len(idx), idx)

\* the constant term of the tensor under test
ConstantTerm == test_coeff[ZeroIndex(ndim(test_coeff))]

\* C1: constant_term_check(coeff, tol) returns False exactly when
\* 2*|c0| > sum(|coeff|) + tol; in every other case, equality included, it
\* returns True.
C1_ConstantTermCheckIff ==
    call.op = "constant_term_check" =>
        /\ ret \in BOOLEAN
        /\ ret = FALSE <=> 2 * Abs(ConstantTerm) > SumAbs(test_coeff) + tol

\* C1 at work: the check has kept a nonzero tensor on an exact tie
C1_Witness ==
    /\ call.op = "constant_term_check"
    /\ ConstantTerm # 0
    /\ 2 * Abs(ConstantTerm) = SumAbs(test_coeff) + tol
    /\ ret = TRUE

\* the quadratic part is the constant c0 and |c0| equals other_sum, so every
\* candidate value is other_sum or -other_sum
ExactTie ==
    /\ \A idx \in DOMAIN test_coeff :
          idx # ZeroIndex(ndim(test_coeff)) /\ Degree(idx) <= 2 => test_coeff[idx] = 0
    /\ Abs(ConstantTerm) = SumAbs(test_coeff) - Abs(ConstantTerm) + tol

\* C2: ties go to keep: constant_term_check keeps the box when
\* 2*|c0| = sum(|coeff|) + tol, and quadratic_check (2-D, 3-D and n-D
\* routines) keeps every sub-box when all candidate values of the quadratic
\* part equal other_sum or -other_sum.
C2_TiesGoToKeep ==
    /\ call.op = "constant_term_check"
          /\ 2 * Abs(ConstantTerm) = SumAbs(test_coeff) + tol
       => ret = TRUE
    /\ call.op \in {"quadratic_check", "quadratic_check_nd"} /\ ExactTie
       => \A i \in 1..Len(intervals) : ret[i] = TRUE

\* C4: for 2-D input quadratic_check_nd returns the mask of
\* quadratic_check_2D, for 3-D input the mask of quadratic_check_3D, whatever
\* the ranges of the sub-boxes.
C4_NdAgreesWith2DAnd3D ==
    call.op = "quadratic_check_nd" =>
        /\ ndim(test_coeff) = 2 => ret = quadratic_check_2D(test_coeff, intervals, tol)
        /\ ndim(test_coeff) = 3 => ret = quadratic_check_3D(test_coeff, intervals, tol)

\* C5: for a fixed tensor and sub-box, a keep verdict of constant_term_check
\* or quadratic_check at tol stays a keep verdict at every larger tol.
C5_MonotoneInTol ==
    /\ call.op = "constant_term_check" /\ ret = TRUE
       => \A tol2 \in tol..(MaxTol + 1) : constant_term_check(test_coeff, tol2)
    /\ call.op = "quadratic_check"
       => \A tol2 \in tol..(MaxTol + 1) : \A i \in 1..Len(intervals) :
             ret[i] => quadratic_check(test_coeff, intervals, tol2)[i]
    /\ call.op = "quadratic_check_nd"
       => \A tol2 \in tol..(MaxTol + 1) : \A i \in 1..Len(intervals) :
             ret[i] => quadratic_check_nd(test_coeff, intervals, tol2)[i]

\* C5 at work: quadratic_check has kept a sub-box at a tolerance above the
\* one it discards it at
C5_Witness ==
    /\ call.op = "quadratic_check"
    /\ tol > 0
    /\ ret[1] = TRUE
    /\ quadratic_check(test_coeff, intervals, tol - 1)[1] = FALSE

\* the tensor under test is a nonzero constant: every other entry is 0
ConstantOnly ==
    /\ ConstantTerm # 0
    /\ \A idx \in DOMAIN test_coeff :
          idx # ZeroIndex(ndim(test_coeff)) => test_coeff[idx] = 0

\* C17: for a tensor of any dimension whose only nonzero entry is the
\* constant term, and tol = 0, constant_term_check returns False and
\* quadratic_check returns False for [-1,1]^n and for every sub-box of it.
C17_ConstantFunctionEliminated ==
    ConstantOnly /\ tol = 0 =>
        /\ call.op = "constant_term_check" => ret = FALSE
        /\ call.op = "quadratic_check"
           => \A i \in 1..Len(intervals) : ret[i] = FALSE

\* C17 at work: quadratic_check has discarded a sub-box smaller than
\* [-1,1]^3 for a negative constant held in a 3-D tensor
C17_Witness ==
    /\ ConstantOnly
    /\ ConstantTerm < 0
    /\ tol = 0
    /\ call.op = "quadratic_check"
    /\ ndim(test_coeff) = 3
    /\ intervals[1][2] # [ax \in 1..3 |-> FromInt(1)]
    /\ ret = <<FALSE>>

\* C18: the verdict quadratic_check gives a sub-box does not depend on the
\* other sub-boxes of the list nor on its position in it: it is the verdict
\* of the same call on that sub-box alone, so the survivors of a batch are
\* the survivors of its sub-boxes taken one by one.
C18_BatchingIndependence ==
    /\ call.op = "quadratic_check"
       => \A i \in 1..Len(intervals) :
             ret[i] = quadratic_check(test_coeff, <<intervals[i]>>, tol)[1]
    /\ call.op = "quadratic_check_nd"
       => \A i \in 1..Len(intervals) :
             ret[i] = quadratic_check_nd(test_coeff, <<intervals[i]>>, tol)[1]

\* C18 at work: of two sub-boxes of one list the 2-D routine has kept the
\* first and discarded the second
C18_Witness ==
    /\ call.op = "quadratic_check"
    /\ ndim(test_coeff) = 2
    /\ Len(intervals) = 2
    /\ ret = <<TRUE, FALSE>>

\* the points of a sub-box that are tried: every coordinate a multiple of
\* 1/SampleN
SampleN == 4

\* the multiples of 1/SampleN in [lo, hi]
SampleAxis(lo, hi) ==
    {v \in {Rat(k, SampleN) : k \in (-SampleN)..SampleN} : InClosed(lo, v, hi)}

\* q at the sample points of a sub-box, the axes taken one by one
SampleValues2D(c, interval) ==
    {EvalFunc2D(c, x, y) :
        x \in SampleAxis(interval[1][1], interval[2][1]),
        y \in SampleAxis(interval[1][2], interval[2][2])}

SampleValues3D(c, interval) ==
    {EvalFunc3D(c, x, y, z) :
        x \in SampleAxis(interval[1][1], interval[2][1]),
        y \in SampleAxis(interval[1][2], interval[2][2]),
        z \in SampleAxis(interval[1][3], interval[2][3])}

\* the values at the candidates a routine accepts
AcceptedValues(cands) == {cands[k][1] : k \in {m \in DOMAIN cands : cands[m] # <<>>}}

\* no value of vals is strictly below every candidate value, strictly above
\* every candidate value, or strictly between -other_sum and other_sum
BoundedBy(vals, candidate_values, other_sum) ==
    \A v \in vals :
       /\ \E w \in candidate_values : RLe(w, v)
       /\ \E w \in candidate_values : RLe(v, w)
       /\ ~(RLt(FromInt(-other_sum), v) /\ RLt(v, FromInt(other_sum)))

SetOf(t) == {t[p] : p \in 1..Len(t)}

\* x = y as rationals
REq(x, y) == x.n * y.d = y.n * x.d

\* C20: in quadratic_check_nd, for every set of fixed variables and every
\* choice of boundaries whose point is evaluated, each fixed coordinate v is
\* the lower or upper bound of the sub-box on its own axis v, the unfixed
\* coordinates solve A_unfixed x = -B_unfixed - A_{unfixed,fixed} x_fixed,
\* and the point lies in the sub-box, whatever the bounds of the axes.
C20_SidePointsInsideBox ==
    call.op = "quadratic_check_nd" =>
        LET q == QuadPart(test_coeff)
            other_sum == OtherSumND(test_coeff, tol)
            corners == product01(q.dim) \o <<>>
            sides == SidesND(q.dim)
            nc == Len(corners)
            interval == intervals[1]
            cands == CandsND(q, corners, sides, interval)
        IN  \A m \in 1..Len(sides) :
               \* the point is accepted, and the flags were not both set before
               /\ cands[nc + m] # <<>>
               /\ ~ScanEvals(cands, nc + m - 1, 1, FALSE, FALSE, other_sum)
               => LET fixed == sides[m][1]
                      side == sides[m][2]
                      X == SidePointND(q, interval, fixed, side)
                  IN  /\ \A p \in 1..Len(fixed) :
                            REq(X[fixed[p] + 1], interval[side[p] + 1][fixed[p] + 1])
                      /\ \A r \in SetOf(Unfixed(q.dim, fixed)) :
                            REq(RSum([ax \in 1..q.dim |-> RScale(q.A[r][ax], X[ax])],
                                     q.dim),
                                FromInt(-q.B[r]))
                      /\ \A ax \in 1..q.dim :
                            InClosed(interval[1][ax], X[ax], interval[2][ax])

\* candidate k of quadratic_check_2D belongs to a stationarity system whose
\* guarding coefficient or determinant is zero
Degenerate2D(c, k) ==
    \/ k \in {5, 6} /\ c[5] = 0
    \/ k \in {7, 8} /\ c[3] = 0
    \/ k = 9 /\ 16 * c[3] * c[5] - c[4] * c[4] = 0

\* the same for candidate k of quadratic_check_3D
Degenerate3D(c, k) ==
    LET kk7 == 4 * c[7]
        kk8 == 4 * c[8]
        kk9 == 4 * c[9]
        fix_x_det == kk8 * kk9 - c[6] * c[6]
        fix_y_det == kk7 * kk9 - c[5] * c[5]
        fix_z_det == kk7 * kk8 - c[4] * c[4]
        minor_1_2 == kk9 * c[4] - c[5] * c[6]
        minor_1_3 == c[4] * c[6] - kk8 * c[5]
        det == 4 * c[7] * fix_x_det - c[4] * minor_1_2 + c[5] * minor_1_3
    IN  \/ k \in 9..12 /\ c[9] = 0
        \/ k \in 13..16 /\ c[8] = 0
        \/ k \in 17..20 /\ c[7] = 0
        \/ k \in {21, 22} /\ fix_x_det = 0
        \/ k \in {23, 24} /\ fix_y_det = 0
        \/ k \in {25, 26} /\ fix_z_det = 0
        \/ k = 27 /\ det = 0

\* the same for candidate k of quadratic_check_nd: the submatrix of the
\* unfixed variables is rank deficient or its diagonal changes sign
DegenerateND(q, nc, sides, k) ==
    IF k <= nc THEN FALSE
    ELSE LET unfixed == IF k <= nc + Len(sides)
                        THEN Unfixed(q.dim, sides[k - nc][1])
                        ELSE [ax \in 1..q.dim |-> ax]
             nu == Len(unfixed)
             A_ == [r \in 1..nu |->
                      [cl \in 1..nu |-> FromInt(q.A[unfixed[r]][unfixed[cl]])]]
         IN  \/ \E r \in 1..(nu - 1) :
                   q.A[unfixed[r]][unfixed[r]] * q.A[unfixed[r + 1]][unfixed[r + 1]] < 0
             \/ Det(A_).n = 0

\* the candidates without those of the degenerate systems
Remaining(cands, degenerate) ==
    [k \in DOMAIN cands |-> IF k \in degenerate THEN <<>> ELSE cands[k]]

\* C21: a stationarity system whose determinant or guarding coefficient is
\* zero (2-D, 3-D), or whose submatrix is rank deficient or has a diagonal
\* that changes sign (n-D), contributes no candidate, no accepted candidate
\* comes from a division by zero, and the verdict of the sub-box is the
\* verdict of the remaining candidates alone.
C21_DegenerateSystemsSkipped ==
    /\ call.op = "quadratic_check" /\ ndim(test_coeff) = 2
       => LET c == QuadCoeffs2D(test_coeff)
              cands == Cands2D(c, intervals[1])
              degenerate == {k \in 1..9 : Degenerate2D(c, k)}
          IN  /\ \A k \in degenerate : cands[k] = <<>>
              /\ \A k \in 1..9 : cands[k] # <<>> => cands[k][1].d # 0
              /\ ret[1] = BothSatisfied(Remaining(cands, degenerate), 9,
                                        OtherSum(test_coeff, c, tol))
    /\ call.op = "quadratic_check" /\ ndim(test_coeff) = 3
       => LET c == QuadCoeffs3D(test_coeff)
              cands == Cands3D(c, intervals[1])
              degenerate == {k \in 1..27 : Degenerate3D(c, k)}
          IN  /\ \A k \in degenerate : cands[k] = <<>>
              /\ \A k \in 1..27 : cands[k] # <<>> => cands[k][1].d # 0
              /\ ret[1] = BothSatisfied(Remaining(cands, degenerate), 27,
                                        OtherSum(test_coeff, c, tol))
    /\ \/ call.op = "quadratic_check_nd"
       \/ call.op = "quadratic_check" /\ ndim(test_coeff) \notin {2, 3}
       => LET q == QuadPart(test_coeff)
              corners == product01(q.dim) \o <<>>
              sides == SidesND(q.dim)
              nc == Len(corners)
              n == nc + Len(sides) + 1
              cands == CandsND(q, corners, sides, intervals[1])
              degenerate == {k \in 1..n : DegenerateND(q, nc, sides, k)}
          IN  /\ \A k \in degenerate : cands[k] = <<>>
              /\ \A k \in 1..n : cands[k] # <<>> => cands[k][1].d # 0
              /\ ret[1] = BothSatisfied(Remaining(cands, degenerate), n,
                                        OtherSumND(test_coeff, tol))

\* C21 at work: a 3-D sub-box was discarded although the system of one of
\* its faces is degenerate and another stationarity system gave a candidate
C21_Witness ==
    /\ call.op = "quadratic_check"
    /\ ndim(test_coeff) = 3
    /\ ret = <<FALSE>>
    /\ LET c == QuadCoeffs3D(test_coeff)
           cands == Cands3D(c, intervals[1])
       IN  /\ \E k \in 21..26 : Degenerate3D(c, k)
           /\ \E k \in 9..27 : cands[k] # <<>>

\* C22: constant_term_check, quadratic_check_2D, quadratic_check_3D and
\* quadratic_check_nd leave the tensor that was passed in as it was, every
\* entry and the shape; the entries quadratic_check_nd sets to zero are
\* those of a working copy padded to at least 3 along every axis, whose
\* other entries are the caller's.
C22_CallerTensorUnchanged ==
    [][call'.op \in {"constant_term_check", "quadratic_check", "quadratic_check_nd"}
          => /\ DOMAIN test_coeff' = DOMAIN test_coeff
             /\ shape(test_coeff') = shape(test_coeff)
             /\ \A idx \in DOMAIN test_coeff : test_coeff'[idx] = test_coeff[idx]
             /\ \/ call'.op = "quadratic_check_nd"
                \/ call'.op = "quadratic_check" /\ ndim(test_coeff) \notin {2, 3}
                => LET work == call'.work
                       dim == ndim(test_coeff)
                   IN  /\ ndim(work) = dim
                       /\ \A ax \in 1..dim :
                             /\ shape(work)[ax] >= 3
                             /\ shape(work)[ax] >= shape(test_coeff)[ax]
                       /\ \A idx \in DOMAIN work :
                             work[idx] = IF SumOver(1..dim, idx) < 3 THEN 0
                                         ELSE Coef(test_coeff, idx)
                       /\ SumAbs(work) + tol = OtherSumND(test_coeff, tol)]_vars

\* C22 at work: quadratic_check_nd has returned, its working copy is larger
\* than the tensor passed in and has zeros where that one still has a
\* nonzero entry of the quadratic part
C22_Witness ==
    /\ call.op = "quadratic_check_nd"
    /\ DOMAIN call.work # DOMAIN test_coeff
    /\ \E idx \in DOMAIN test_coeff : test_coeff[idx] # 0 /\ call.work[idx] = 0

----------------------------------------------------------------------------
(* The check functions called on tensors with a large constant term.       *)

\* the constant term is an integer of magnitude at most MaxConst
MaxConst == 3
\* at most MaxNonzeroRest of the other entries are nonzero
MaxNonzeroRest == 2

\* the tensors of 3 entries per axis: any constant term up to MaxConst, the
\* other entries as in Tensors
DominantTensors ==
    {[idx \in DOMAIN t |-> IF idx = ZeroIndex(ndim(t)) THEN k ELSE t[idx]] :
        t \in {u \in Tensors :
                  /\ DOMAIN u = [1..ndim(u) -> 0..2]
                  /\ u[ZeroIndex(ndim(u))] = 0
                  /\ Nonzero(u) <= MaxNonzeroRest},
        k \in (-MaxConst)..MaxConst}

InitDominant ==
    /\ InitTracker
    /\ test_coeff \in DominantTensors
    /\ intervals \in {<<iv>> : iv \in BatchBoxes(ndim(test_coeff))}
    /\ tol \in 0..MaxTol
    /\ call = NoCall
    /\ ret = "None"
    /\ fixed_vars_cache = EmptyCache

SpecDominant == InitDominant /\ [][NextChecks]_vars

\* C26: whenever constant_term_check(coeff, tol) is False, quadratic_check
\* and quadratic_check_nd return False for every sub-box of [-1,1]^n they
\* are given.
C26_QuadraticSubsumesConstant ==
    /\ call.op \in {"quadratic_check", "quadratic_check_nd"}
    /\ constant_term_check(test_coeff, tol) = FALSE
    => \A k \in 1..Len(ret) : ret[k] = FALSE

\* C26 at work: a tensor with two nonzero entries beside its constant term,
\* one of them of degree 2, fails the constant term check and the quadratic
\* check has discarded a sub-box that is not the whole of [-1,1]^n
C26_Witness ==
    /\ call.op \in {"quadratic_check", "quadratic_check_nd"}
    /\ constant_term_check(test_coeff, tol) = FALSE
    /\ ret = <<FALSE>>
    /\ Nonzero(test_coeff) = 3
    /\ \E idx \in DOMAIN test_coeff :
          test_coeff[idx] # 0 /\ SumOver(1..ndim(test_coeff), idx) = 2
    /\ \E ax \in 1..ndim(test_coeff) : intervals[1][1][ax] = FromInt(0)

----------------------------------------------------------------------------
(* Properties of the tracker, under Spec.                                  *)

\* the sub-boxes of the last check_subintervals call that c keeps out of kept
Eliminated(boxes, kept) ==
    {boxes[i] : i \in {j \in 1..Len(boxes) : \A m \in 1..Len(kept) : kept[m] # boxes[j]}}

\* the sum of the volumes of a set of boxes
RECURSIVE VolumeOf(_)
VolumeOf(S) ==
    IF S = {} THEN 0
    ELSE LET box == CHOOSE x \in S : TRUE
         IN  Volume(box[1], box[2]) + VolumeOf(S \ {box})

\* the scaled images the driver passes with the boxes of a call
ScaledOf(boxes) == [i \in 1..Len(boxes) |-> Rescale(boxes[i], ActiveBox)]

\* lower <= 0 <= upper on every axis of a scaled box
ContainsOrigin(scaled) ==
    \A i \in 1..Len(scaled[1]) :
        RLe(scaled[1][i], FromInt(0)) /\ RLe(FromInt(0), scaled[2][i])

\* C3: with f = x and g = y represented exactly and errors 0, every sub-box
\* whose image in [-1,1]^2 contains the origin, on a face or corner included,
\* is in the list check_subintervals returns for polys [f, g].
C3_KnownRootRetention ==
    call.op = "check_subintervals" /\ call.polys = <<PolyX, PolyY>>
        /\ call.errors = <<0, 0>>
    => \A i \in 1..Len(call.boxes) :
          ContainsOrigin(ScaledOf(call.boxes)[i])
          => \E m \in 1..Len(ret) : ret[m] = call.boxes[i]

\* new is old with the boxes of S appended, each once, in some order
AppendedOnce(old, new, S) ==
    /\ Len(new) = Len(old) + Cardinality(S)
    /\ SubSeq(new, 1, Len(old)) = old
    /\ \A box \in S : \E k \in (Len(old) + 1)..Len(new) : new[k] = box

\* C6: in polishing mode no call of check_interval, check_subintervals or
\* track_interval changes any list of interval_results; in normal mode a
\* check_interval or check_subintervals call appends each box it eliminates
\* to the list of the eliminating check, and changes no other list.
C6_PolishingSuppression ==
    [][/\ polishing /\ call'.op \in {"check_interval", "check_subintervals",
                                     "track_interval"}
          => interval_results' = interval_results
       /\ ~polishing /\ call'.op = "check_interval" /\ ret' = TRUE
          => interval_results' =
                [interval_results EXCEPT !["constant_term_check"] =
                                            Append(@, call'.boxes[1])]
       /\ ~polishing /\ call'.op = "check_subintervals"
          => /\ AppendedOnce(interval_results["quadratic_check"],
                             interval_results'["quadratic_check"],
                             Eliminated(call'.boxes, ret'))
             /\ \A name \in ResultNames \ {"quadratic_check"} :
                   interval_results'[name] = interval_results[name]]_vars

\* C6 at work: check_subintervals has eliminated a sub-box in polishing mode
C6_Witness ==
    /\ polishing
    /\ call.op = "check_subintervals"
    /\ Eliminated(call.boxes, ret) # {}

\* C7: in polishing mode a check_interval or check_subintervals call that
\* eliminates a box increases current_area by the volume of that box, as it
\* does in normal mode.
C7_CoverageInPolishing ==
    [][polishing =>
          /\ call'.op = "check_interval" /\ ret' = TRUE
             => current_area' = current_area
                                  + Volume(call'.boxes[1][1], call'.boxes[1][2])
          /\ call'.op = "check_subintervals"
             => current_area' = current_area
                                  + VolumeOf(Eliminated(call'.boxes, ret'))]_vars

\* the tracker that differs from self in the polishing flag only
Twin(self) == [self EXCEPT !.polishing = ~@]

\* C8: check_interval returns the same boolean and check_subintervals the
\* same list of surviving sub-boxes on the tracker with the other polishing
\* flag, for the same arguments.
C8_VerdictsIgnoreMode ==
    [][/\ call'.op = "check_interval"
          => ret' = check_interval(Twin(Self), call'.polys[1], call'.errors[1],
                                   call'.boxes[1]).ret
       /\ call'.op = "check_subintervals"
          => ret' = check_subintervals(Twin(Self), call'.boxes,
                                       ScaledOf(call'.boxes), call'.polys,
                                       call'.errors).ret]_vars

\* C8 at work: check_interval has discarded a box in polishing mode
C8_Witness ==
    /\ polishing
    /\ call.op = "check_interval"
    /\ ret = TRUE

RECURSIVE CountIn(_, _)
CountIn(l, box) ==
    IF l = <<>> THEN 0
    ELSE (IF Head(l) = box THEN 1 ELSE 0) + CountIn(Tail(l), box)

\* the number of times box is recorded in interval_results
Occurrences(box) ==
    SumOver(ResultNames, [name \in ResultNames |-> CountIn(interval_results[name], box)])

\* C10: in normal mode every box eliminated by check_interval or
\* check_subintervals is recorded once, under the eliminating check, and no
\* box is ever recorded twice, under one identifier or under two.
C10_ProvenanceExactlyOnce ==
    /\ \A box \in AbsBoxes : Occurrences(box) <= 1
    /\ ~polishing /\ call.op = "check_interval" /\ ret = TRUE
       => /\ Occurrences(call.boxes[1]) = 1
          /\ CountIn(interval_results["constant_term_check"], call.boxes[1]) = 1
    /\ ~polishing /\ call.op = "check_subintervals"
       => \A box \in Eliminated(call.boxes, ret) :
             /\ Occurrences(box) = 1
             /\ CountIn(interval_results["quadratic_check"], box) = 1

\* C10 at work: the first function of the list has discarded both sub-boxes
\* of a call whose second function discards every box
C10_Witness ==
    /\ ~polishing
    /\ call.op = "check_subintervals"
    /\ call.polys = <<PolyX, PolyOne>>
    /\ call.errors = <<0, 0>>
    /\ Len(call.boxes) = 2
    /\ ret = <<>>

\* C11: track_interval(name, box) increases current_area by the volume of
\* box in normal and in polishing mode; it appends box to
\* interval_results[name] exactly when the tracker is not polishing, and
\* changes no other list of interval_results.
C11_TrackIntervalContract ==
    [][call'.op = "track_interval" =>
          /\ current_area' = current_area
                               + Volume(call'.boxes[1][1], call'.boxes[1][2])
          /\ interval_results'[call'.name] =
                IF polishing THEN interval_results[call'.name]
                ELSE Append(interval_results[call'.name], call'.boxes[1])
          /\ \A name \in ResultNames \ {call'.name} :
                interval_results'[name] = interval_results[name]
          /\ DOMAIN interval_results' = ResultNames]_vars

\* C11 at work: track_interval has accrued a box in polishing mode and left
\* the lists as the normal mode had filled them
C11_Witness ==
    /\ polishing
    /\ call.op = "track_interval"
    /\ current_area >= Volume(call.boxes[1][1], call.boxes[1][2])
    /\ \A name \in ResultNames :
          \A k \in 1..Len(interval_results[name]) :
             interval_results[name][k] # call.boxes[1]
    /\ \E name \in ResultNames : interval_results[name] # <<>>

\* the positions in interval_checks of the checks that return False
Eliminating(coeff, error) ==
    {k \in 1..Len(interval_checks) : ~IntervalCheck(interval_checks[k], coeff, error)}

\* the least element of a nonempty set of positions
First(S) == CHOOSE k \in S : \A m \in S : k <= m

Survives(scaled, polys, errors, i) ==
    \A k \in 1..Len(subinterval_checks) :
       \A p \in 1..Len(polys) :
          SubintervalCheck(subinterval_checks[k], polys[p], <<scaled[i]>>, errors[p])[1]

\* the sub-boxes that survive, in the order of the call
Survivors(boxes, scaled, polys, errors) ==
    FlatMap([i \in 1..Len(boxes) |->
                IF Survives(scaled, polys, errors, i) THEN <<boxes[i]>> ELSE <<>>],
            1, Len(boxes))

\* C13: check_subintervals returns exactly the sub-boxes, in absolute
\* coordinates and in the order of the call, whose scaled image gets True
\* from every check for every (poly, error) pair; the two lists are narrowed
\* together and a later function runs on the survivors of the earlier ones
\* only, so in normal mode each eliminated sub-box is recorded once.
C13_SurvivorsInOrder ==
    [][call'.op = "check_subintervals" =>
          /\ ret' = Survivors(call'.boxes, ScaledOf(call'.boxes), call'.polys,
                              call'.errors)
          /\ ~polishing
             => Len(interval_results'["quadratic_check"]) =
                   Len(interval_results["quadratic_check"])
                   + Len(call'.boxes) - Len(ret')]_vars

\* C13 at work: of two sub-boxes the first function has kept the second one
\* only, and the second function has kept it too
C13_Witness ==
    /\ call.op = "check_subintervals"
    /\ Len(call.boxes) = 2
    /\ ret = <<call.boxes[2]>>
    /\ ~quadratic_check(call.polys[1], ScaledOf(call.boxes), call.errors[1])[1]

\* the unit cells of a box on the integer grid, each named by its lower corner
Cells(box) ==
    {cell \in [1..Len(box[1]) -> (-AbsN)..(AbsN - 1)] :
        \A i \in 1..Len(box[1]) : box[1][i] <= cell[i] /\ cell[i] < box[2][i]}

\* the boxes tracked since current_area was last 0 partition the box being
\* processed: they lie in it and every cell of it is in exactly one of them
PartitionsActiveBox ==
    /\ \A box \in covered : Inside(box, ActiveBox)
    /\ \A cell \in Cells(ActiveBox) :
          Cardinality({box \in covered : cell \in Cells(box)}) = 1

----------------------------------------------------------------------------
(* Properties of get_fixed_vars, under SpecFixedVars.                      *)

\* the subsets of {0..dim-1} that are neither empty nor the whole set
ProperSubsets(dim) == SUBSET (0..(dim - 1)) \ {{}, 0..(dim - 1)}

\* C16: get_fixed_vars(dim) returns every subset of {0..dim-1} of size dim-1
\* down to 1 exactly once, by decreasing size, and never the empty or the
\* full subset (2^dim - 2 subsets, none for dim = 1); a repeated call with
\* the same dim returns the same sequence.
C16_FixedVarsEnumeration ==
    [][call'.op = "get_fixed_vars" =>
          LET dim == call'.dim
              l == ret'
          IN  /\ Len(l) = Pow2(dim) - 2
              /\ \A k \in 1..Len(l) :
                    /\ SetOf(l[k]) \in ProperSubsets(dim)
                    /\ Cardinality(SetOf(l[k])) = Len(l[k])
              /\ \A S \in ProperSubsets(dim) :
                    Cardinality({k \in 1..Len(l) : SetOf(l[k]) = S}) = 1
              /\ \A k \in 1..(Len(l) - 1) : Len(l[k]) >= Len(l[k + 1])
              /\ dim > 1 => Len(l[1]) = dim - 1 /\ Len(l[Len(l)]) = 1
              /\ fixed_vars_cache'[dim] = <<l>>
              /\ fixed_vars_cache[dim] # <<>> => l = fixed_vars_cache[dim][1]]_vars

\* C16 at work: a second call with the largest dimension has returned the
\* sequence of the first, after a call with dimension 1 returned none
C16_Witness ==
    /\ call.op = "get_fixed_vars"
    /\ call.dim = MaxDim
    /\ call.name = "cached"
    /\ Len(ret) = Pow2(MaxDim) - 2
    /\ fixed_vars_cache[1] = << <<>> >>

\* C23: add_polish_intervals and start_polish_interval leave every list of
\* interval_results as it was; start_polish_interval moves
\* polish_interval_num on by exactly one and, when it returns, polish_a and
\* polish_b are the bounds of the queued box at the new cursor, total_area
\* is the volume of that box and current_area is 0.
C23_PolishKeepsRegistry ==
    [][/\ call'.op \in {"add_polish_intervals", "start_polish_interval"}
          => interval_results' = interval_results
       /\ call'.op = "start_polish_interval"
          => /\ polish_interval_num' = polish_interval_num + 1
             /\ ret' = "None"
                => LET box == polish_intervals[polish_interval_num' + 1]
                   IN  /\ polish_a' = box[1]
                       /\ polish_b' = box[2]
                       /\ total_area' = Prod([i \in 1..Len(box[1]) |->
                                                 box[2][i] - box[1][i]],
                                             Len(box[1]))
                       /\ current_area' = 0]_vars

\* C23 at work: start_polish_interval has moved to a queued box smaller
\* than the solve box while the lists hold the boxes of the normal mode
C23_Witness ==
    /\ call.op = "start_polish_interval"
    /\ ret = "None"
    /\ polish_interval_num = 0
    /\ <<polish_a, polish_b>> = polish_intervals[1]
    /\ total_area < Volume(a, b)
    /\ current_area = 0
    /\ \E name \in ResultNames : interval_results[name] # <<>>

C25_PolishCursorInRange ==
    /\ [](-1 <= polish_interval_num
            /\ polish_interval_num <= Len(polish_intervals) - 1)
    /\ [][(call'.op = "start_polish_interval"
              /\ polish_interval_num = Len(polish_intervals) - 1)
           => /\ ret' # "None"
              /\ UNCHANGED <<polish_interval_num, polish_a, polish_b,
                             total_area, current_area>>]_vars

----------------------------------------------------------------------------
(* Properties of the reporting operations, under SpecReport.               *)

\* C14: print_progress and print_results leave every attribute of the
\* tracker as it was: tick, interval_results, current_area, total_area and
\* the rest, and the set of attributes itself.
C14_ReportingReadsOnly ==
    [][call'.op \in {"print_progress", "print_results"}
       => UNCHANGED <<interval_results, total_area, current_area, polishing,
                      polish_intervals, polish_num, polish_interval_num,
                      polish_a, polish_b, tick, total_intervals>>]_vars

====
